---- MODULE Spec2Model ----
(***************************************************************************)
(* A model of r3f-peridot: the vertex welder (src/utils/VertexWelder.ts),   *)
(* the surface segmenter, the OutlineEffect component and its outline pass.*)
(*                                                                         *)
(* Numbers.  A coordinate of the position buffer is an integer multiple    *)
(* of 1/CoordDen (CoordDen = 20: one unit is 0.05), so that the mesh can   *)
(* hold both edges shorter than the resolver's 0.1 tolerance and edges of  *)
(* length 1.  A unit face normal is kept as the primitive integer vector   *)
(* of its direction (the unit vector is that vector divided by its         *)
(* length), so that the comparison of a dot product of two unit normals    *)
(* with cos(thresholdAngle) is decided exactly, on squares.                *)
(*                                                                         *)
(* Objects.  A JavaScript object used as a map is a function whose DOMAIN  *)
(* is the set of its keys; the string key `${a}_${b}` is the pair <<a, b>>.*)
(* Arrays are sequences; a vertex index i of the (0-based) flat position   *)
(* buffer reads the 1-based elements 3i+1, 3i+2, 3i+3.                     *)
(***************************************************************************)
EXTENDS Integers, Sequences, FiniteSets, TLC

VARIABLES
  vertices,         \* weldVertices' argument: flat (x, y, z) positions
  indices,          \* weldVertices' argument: flat triangle index buffer
  thresholdAngle,   \* weldVertices' argument, in degrees
  pc,               \* position in weldVertices: "match", "resolve", "rewrite", "done"
  tri,              \* the loop variable i / 3 of the running triangle loop
  edgeNo,           \* position in `for (const edge of edges)`, 0..2
  edgeData,         \* computeEdgesToMerge: key of two position hashes -> EdgeData | null
  edgesToMerge,     \* computeEdgesToMerge: the merge pairs emitted so far
  edgesToMergeMap,  \* weldVertices: index-pair key -> merge pair
  mergedMap,        \* weldVertices: kept vertex -> list of vertices merged into it
  vertexAliases,    \* weldVertices: deleted vertex -> remaining vertex
  newIndexBuffer,   \* weldVertices: the returned buffer (empty until built)
  _v0,              \* the module's scratch vector _v0
  _normal,          \* the module's scratch vector _normal
  calls,            \* the calls that have returned: arguments and result of each
  surfaceId,        \* FindSurfaces: the instance's counter
  attributes,       \* FindSurfaces: the meshes processed and the attribute of each
  component,        \* OutlineEffect: props, useThree() values, refs, effect bookkeeping
  resources,        \* the GPU resources OutlineEffect has created, one bundle per setup
  colors,           \* the 'color' attribute of every mesh of every scene
  rendered,         \* what the last frame callback did
  outlinePass       \* CustomOutlinePass.render: the pass, its scene and its write buffer

vars == <<vertices, indices, thresholdAngle, pc, tri, edgeNo, edgeData,
          edgesToMerge, edgesToMergeMap, mergedMap, vertexAliases, newIndexBuffer,
          _v0, _normal, calls, surfaceId, attributes,
          component, resources, colors, rendered, outlinePass>>

\* The variables of OutlineEffect and CustomOutlinePass.
outlineVars == <<component, resources, colors, rendered, outlinePass>>

-----------------------------------------------------------------------------
(* Bounds of the checked inputs *)

\* Largest number of triangles of an input mesh.
MaxTris == 3

\* Largest number of triangles of a mesh whose triangles all lie on one edge.
MaxEdgeTris == 4

\* Largest number of weldVertices calls made one after the other.
MaxCalls == 3

\* Largest number of meshes one FindSurfaces instance processes.
MaxMeshes == 3

-----------------------------------------------------------------------------
(* Numbers and vectors *)

\* One model unit is 1/CoordDen of the position buffer's unit.
CoordDen == 20

precisionPoints == 4
precision == 10 ^ precisionPoints

Abs(x) == IF x < 0 THEN -x ELSE x

RECURSIVE Gcd(_, _)
Gcd(a, b) == IF b = 0 THEN a ELSE Gcd(b, a % b)

\* Math.round(num / den) for den > 0: the nearest integer, a tie going up.
Round(num, den) == (2 * num + den) \div (2 * den)

\* new Vector3(x, y, z)
Vector3(x, y, z) == <<x, y, z>>

subVectors(a, b) == <<a[1] - b[1], a[2] - b[2], a[3] - b[3]>>

crossVectors(a, b) ==
  <<a[2] * b[3] - a[3] * b[2], a[3] * b[1] - a[1] * b[3], a[1] * b[2] - a[2] * b[1]>>

dot(a, b) == a[1] * b[1] + a[2] * b[2] + a[3] * b[3]

lengthSq(a) == dot(a, a)

\* A resolver that never finds the two first vertices apart, so never swaps.
DistanceNeverExceedsTolerance(a, b) == FALSE

\* v0.distanceTo(v2) > 0.1, on squares: d / CoordDen > 1/10  <=>  100 d^2 > CoordDen^2.
DistanceExceedsTolerance(a, b) ==
  100 * lengthSq(subVectors(a, b)) > CoordDen * CoordDen

getVertexFromIndexBuffer(index, positionAttr) ==
  Vector3(positionAttr[index * 3 + 1], positionAttr[index * 3 + 2], positionAttr[index * 3 + 3])

\* `${Math.round(v.x * precision)},${Math.round(v.y * precision)},${Math.round(v.z * precision)}`
hashVertex(v) ==
  <<Round(v[1] * precision, CoordDen), Round(v[2] * precision, CoordDen),
    Round(v[3] * precision, CoordDen)>>

\* The direction of a vector as a primitive integer vector; <<0, 0, 0>> stays.
Primitive(n) ==
  LET g == Gcd(Gcd(Abs(n[1]), Abs(n[2])), Abs(n[3]))
  IN  IF g = 0 THEN <<0, 0, 0>> ELSE <<n[1] \div g, n[2] \div g, n[3] \div g>>

\* getNormal(a, b, c, resultNormal): (c - b) x (a - b), normalised, or (0, 0, 0).
getNormal(a, b, c) == Primitive(crossVectors(subVectors(c, b), subVectors(a, b)))

\* cos(DEG2RAD * t)^2 as a fraction <<numerator, denominator>>, for the angles of
\* Thresholds.  cos(1 degree)^2 = 0.99969541...: 3282/3283 = 0.99969540... stands
\* for it (no two normals of the checked meshes have a squared cosine between).
CosSq(t) ==
  CASE t = 1 -> <<3282, 3283>>
    [] t = 90 -> <<0, 1>>
    [] t = 120 -> <<1, 4>>

\* An angle test that also passes when the dot product equals thresholdDot.
DotAtLeastThreshold(n1, n2, t) ==
  LET d == dot(n1, n2)
      ab == lengthSq(n1) * lengthSq(n2)
      c == CosSq(t)
  IN  IF t < 90
        THEN d > 0 /\ d * d * c[2] >= c[1] * ab
        ELSE d >= 0 \/ d * d * c[2] <= c[1] * ab

\* _normal.dot(stored.normal) > thresholdDot, for unit normals of directions n1, n2.
DotExceedsThreshold(n1, n2, t) ==
  LET d == dot(n1, n2)
      ab == lengthSq(n1) * lengthSq(n2)
      c == CosSq(t)
  IN  IF t <= 90
        THEN d > 0 /\ d * d * c[2] > c[1] * ab
        ELSE d >= 0 \/ d * d * c[2] < c[1] * ab

-----------------------------------------------------------------------------
(* JavaScript objects as maps *)

EmptyMap == << >>

Put(m, k, v) == [x \in DOMAIN m \cup {k} |-> IF x = k THEN v ELSE m[x]]

Delete(m, k) == [x \in DOMAIN m \ {k} |-> m[x]]

\* if (m[k]) ... for a map of numbers: undefined and 0 are falsy.
TruthyNumber(m, k) == k \in DOMAIN m /\ m[k] # 0

-----------------------------------------------------------------------------
(* computeEdgesToMerge (the Edge Matcher) *)

\* edgeData[reverseHash] = null
NullEdge == [index0 |-> -1, index1 |-> -1, normal |-> <<0, 0, 0>>]

\* The empty tables computeEdgesToMerge starts from.
MatcherInit == [edgeData |-> EmptyMap, edgesToMerge |-> << >>]

\* The three corners indexArr of triangle i (0-based) of an index buffer.
TriangleIndices(indexBuf, i) == <<indexBuf[3 * i + 1], indexBuf[3 * i + 2], indexBuf[3 * i + 3]>>

NumTriangles(indexBuf) == Len(indexBuf) \div 3

\* A matcher without the test of the angle: every sibling found is a merge pair.
MatchEdgeAnyAngle(m, indexArr, hashes, normal, j, threshold) ==
  LET jNext == (j + 1) % 3
      hash == <<hashes[j + 1], hashes[jNext + 1]>>
      reverseHash == <<hashes[jNext + 1], hashes[j + 1]>>
  IN  IF reverseHash \in DOMAIN m.edgeData /\ m.edgeData[reverseHash] # NullEdge
        THEN [edgeData |-> Put(m.edgeData, reverseHash, NullEdge),
              edgesToMerge |->
                Append(m.edgesToMerge,
                       <<(<<m.edgeData[reverseHash].index0, m.edgeData[reverseHash].index1>>),
                         (<<indexArr[j + 1], indexArr[jNext + 1]>>)>>)]
        ELSE IF hash \notin DOMAIN m.edgeData
               THEN [m EXCEPT !.edgeData =
                       Put(m.edgeData, hash,
                           [index0 |-> indexArr[j + 1], index1 |-> indexArr[jNext + 1],
                            normal |-> normal])]
               ELSE m

\* A matcher that leaves the stored record in place when it has matched it.
MatchEdgeKeepRecord(m, indexArr, hashes, normal, j, threshold) ==
  LET jNext == (j + 1) % 3
      hash == <<hashes[j + 1], hashes[jNext + 1]>>
      reverseHash == <<hashes[jNext + 1], hashes[j + 1]>>
  IN  IF reverseHash \in DOMAIN m.edgeData /\ m.edgeData[reverseHash] # NullEdge
        THEN [m EXCEPT !.edgesToMerge =
                IF DotExceedsThreshold(normal, m.edgeData[reverseHash].normal, threshold)
                  THEN Append(m.edgesToMerge,
                         <<(<<m.edgeData[reverseHash].index0, m.edgeData[reverseHash].index1>>),
                           (<<indexArr[j + 1], indexArr[jNext + 1]>>)>>)
                  ELSE m.edgesToMerge]
        ELSE IF hash \notin DOMAIN m.edgeData
               THEN [m EXCEPT !.edgeData =
                       Put(m.edgeData, hash,
                           [index0 |-> indexArr[j + 1], index1 |-> indexArr[jNext + 1],
                            normal |-> normal])]
               ELSE m

\* One pass of `for (let j = 0; j < 3; j++)`: edge j of the current triangle.
\* m holds edgeData and edgesToMerge; indexArr, hashes are 1-based here.
MatchEdge(m, indexArr, hashes, normal, j, threshold) ==
  LET jNext == (j + 1) % 3
      vecHash0 == hashes[j + 1]
      vecHash1 == hashes[jNext + 1]
      hash == <<vecHash0, vecHash1>>
      reverseHash == <<vecHash1, vecHash0>>
  IN  IF reverseHash \in DOMAIN m.edgeData /\ m.edgeData[reverseHash] # NullEdge
        THEN LET stored == m.edgeData[reverseHash]
                 edge1 == <<stored.index0, stored.index1>>
                 edge2 == <<indexArr[j + 1], indexArr[jNext + 1]>>
             IN  [edgeData |-> Put(m.edgeData, reverseHash, NullEdge),
                  edgesToMerge |->
                    IF DotExceedsThreshold(normal, stored.normal, threshold)
                      THEN Append(m.edgesToMerge, <<edge1, edge2>>)
                      ELSE m.edgesToMerge]
        ELSE IF hash \notin DOMAIN m.edgeData
               THEN [m EXCEPT !.edgeData =
                       Put(m.edgeData, hash,
                           [index0 |-> indexArr[j + 1], index1 |-> indexArr[jNext + 1],
                            normal |-> normal])]
               ELSE m

\* A matcher without the skip of degenerate triangles.
MatchTriangleNoSkip(m, positionAttr, indexBuf, i, threshold) ==
  LET indexArr == TriangleIndices(indexBuf, i)
      a == getVertexFromIndexBuffer(indexArr[1], positionAttr)
      b == getVertexFromIndexBuffer(indexArr[2], positionAttr)
      c == getVertexFromIndexBuffer(indexArr[3], positionAttr)
      normal == getNormal(a, b, c)
      hashes == <<hashVertex(a), hashVertex(b), hashVertex(c)>>
  IN  MatchEdge(MatchEdge(MatchEdge(m, indexArr, hashes, normal, 0, threshold),
                          indexArr, hashes, normal, 1, threshold),
                indexArr, hashes, normal, 2, threshold)

\* One pass of `for (let i = 0; i < indexCount; i += 3)`: triangle i (0-based).
MatchTriangle(m, positionAttr, indexBuf, i, threshold) ==
  LET indexArr == TriangleIndices(indexBuf, i)
      a == getVertexFromIndexBuffer(indexArr[1], positionAttr)
      b == getVertexFromIndexBuffer(indexArr[2], positionAttr)
      c == getVertexFromIndexBuffer(indexArr[3], positionAttr)
      normal == getNormal(a, b, c)
      hashes == <<hashVertex(a), hashVertex(b), hashVertex(c)>>
  IN  IF hashes[1] = hashes[2] \/ hashes[2] = hashes[3] \/ hashes[3] = hashes[1]
        THEN m
        ELSE MatchEdge(MatchEdge(MatchEdge(m, indexArr, hashes, normal, 0, threshold),
                                 indexArr, hashes, normal, 1, threshold),
                       indexArr, hashes, normal, 2, threshold)

\* The matcher's tables after triangles 0 .. n-1.
RECURSIVE MatchUpTo(_, _, _, _)
MatchUpTo(positionAttr, indexBuf, threshold, n) ==
  IF n = 0
    THEN MatcherInit
    ELSE MatchTriangle(MatchUpTo(positionAttr, indexBuf, threshold, n - 1),
                       positionAttr, indexBuf, n - 1, threshold)

computeEdgesToMerge(positionAttr, indexBuf, threshold) ==
  MatchUpTo(positionAttr, indexBuf, threshold, NumTriangles(indexBuf)).edgesToMerge

\* const _v0 = new Vector3(); const _normal = new Vector3()
ScratchInit == [v0 |-> Vector3(0, 0, 0), normal |-> Vector3(0, 0, 0)]

\* A getNormal that adds the new direction to the one resultNormal held.
getNormalAccumulating(scratch, a, b, c) ==
  LET v0 == subVectors(a, b)
      cross == Primitive(crossVectors(subVectors(c, b), v0))
  IN  [v0 |-> v0,
       normal |-> Primitive(<<scratch.normal[1] + cross[1], scratch.normal[2] + cross[2],
                              scratch.normal[3] + cross[3]>>)]

\* getNormal(a, b, c, _normal) as it writes the two scratch vectors: every
\* component of resultNormal and of _v0 is assigned before it is read.
getNormalInto(scratch, a, b, c) ==
  LET resultNormal == subVectors(c, b)
      v0 == subVectors(a, b)
  IN  [v0 |-> v0, normal |-> Primitive(crossVectors(resultNormal, v0))]

\* The triangle loop's body with the scratch vectors: ms holds edgeData,
\* edgesToMerge and scratch; the edges are compared with the _normal just written.
MatchTriangleInto(ms, positionAttr, indexBuf, i, threshold) ==
  LET indexArr == TriangleIndices(indexBuf, i)
      a == getVertexFromIndexBuffer(indexArr[1], positionAttr)
      b == getVertexFromIndexBuffer(indexArr[2], positionAttr)
      c == getVertexFromIndexBuffer(indexArr[3], positionAttr)
      scratch == getNormalInto(ms.scratch, a, b, c)
      hashes == <<hashVertex(a), hashVertex(b), hashVertex(c)>>
      m0 == [edgeData |-> ms.edgeData, edgesToMerge |-> ms.edgesToMerge]
      m == IF hashes[1] = hashes[2] \/ hashes[2] = hashes[3] \/ hashes[3] = hashes[1]
             THEN m0
             ELSE MatchEdge(MatchEdge(MatchEdge(m0, indexArr, hashes, scratch.normal, 0,
                                                threshold),
                                      indexArr, hashes, scratch.normal, 1, threshold),
                            indexArr, hashes, scratch.normal, 2, threshold)
  IN  [edgeData |-> m.edgeData, edgesToMerge |-> m.edgesToMerge, scratch |-> scratch]

\* The matcher's tables and the scratch vectors after triangles 0 .. n-1 of a call
\* that found the scratch vectors as `scratch`.
RECURSIVE MatchUpToInto(_, _, _, _, _)
MatchUpToInto(scratch, positionAttr, indexBuf, threshold, n) ==
  IF n = 0
    THEN [edgeData |-> EmptyMap, edgesToMerge |-> << >>, scratch |-> scratch]
    ELSE MatchTriangleInto(MatchUpToInto(scratch, positionAttr, indexBuf, threshold, n - 1),
                           positionAttr, indexBuf, n - 1, threshold)

-----------------------------------------------------------------------------
(* weldVertices (the Vertex Merge Resolver and the Index Rewriter) *)

\* merge(i1, i2): mergedMap[i1].push(i2)
merge(merged, i1, i2) ==
  Put(merged, i1, Append(IF i1 \in DOMAIN merged THEN merged[i1] ELSE << >>, i2))

\* aliasDeletedVertex(deletedVertex, remainingVertex)
aliasDeletedVertex(aliases, deletedVertex, remainingVertex) ==
  IF deletedVertex = remainingVertex
    THEN aliases
    ELSE Put(aliases, deletedVertex, remainingVertex)

\* if (vertexAliases[index]) index = vertexAliases[index]
ReplaceDeleted(aliases, index) ==
  IF TruthyNumber(aliases, index) THEN aliases[index] ELSE index

\* `for (let i ...) for (const index of edgesList) edgesToMergeMap[key] = edgesList`,
\* from pair n (1-based) on.
RECURSIVE BuildEdgesToMergeMap(_, _, _)
BuildEdgesToMergeMap(map, pairs, n) ==
  IF n > Len(pairs)
    THEN map
    ELSE BuildEdgesToMergeMap(Put(Put(map, pairs[n][1], pairs[n]), pairs[n][2], pairs[n]),
                              pairs, n + 1)

\* const edges: [i1, i2], [i1, i3], [i2, i3]
TriangleEdges(indexBuf, i) ==
  LET t == TriangleIndices(indexBuf, i)
  IN  <<(<<t[1], t[2]>>), (<<t[1], t[3]>>), (<<t[2], t[3]>>)>>

ResolverInit(pairs) ==
  [edgesToMergeMap |-> BuildEdgesToMergeMap(EmptyMap, pairs, 1),
   mergedMap |-> EmptyMap,
   vertexAliases |-> EmptyMap]

\* The four indices of a merge found at `edge`, after orientation (the swap by
\* distance) and before alias replacement: <<index0, index1, index2, index3>>.
OrientedMerge(map, positionAttr, edge) ==
  LET reverseEdge == <<edge[2], edge[1]>>
      edgeKeyToUse == IF reverseEdge \in DOMAIN map THEN reverseEdge ELSE edge
      possibleEdge1 == map[edgeKeyToUse][1]
      possibleEdge2 == map[edgeKeyToUse][2]
      isCurrent == possibleEdge1 = edge \/ possibleEdge1 = reverseEdge
      otherEdge == IF isCurrent THEN possibleEdge2 ELSE possibleEdge1
      originalEdge == IF isCurrent THEN possibleEdge1 ELSE possibleEdge2
      v0 == getVertexFromIndexBuffer(originalEdge[1], positionAttr)
      v2 == getVertexFromIndexBuffer(otherEdge[1], positionAttr)
  IN  IF DistanceExceedsTolerance(v0, v2)
        THEN <<originalEdge[1], originalEdge[2], otherEdge[2], otherEdge[1]>>
        ELSE <<originalEdge[1], originalEdge[2], otherEdge[1], otherEdge[2]>>

\* The body of `for (const edge of edges)` for one edge; r holds edgesToMergeMap,
\* mergedMap and vertexAliases.
ResolveEdge(r, positionAttr, edge) ==
  LET reverseEdge == <<edge[2], edge[1]>>
      map == r.edgesToMergeMap
  IN  IF edge \notin DOMAIN map /\ reverseEdge \notin DOMAIN map
        THEN r
        ELSE
          LET edgeKeyToUse == IF reverseEdge \in DOMAIN map THEN reverseEdge ELSE edge
              possibleEdge1 == map[edgeKeyToUse][1]
              possibleEdge2 == map[edgeKeyToUse][2]
              isCurrent == possibleEdge1 = edge \/ possibleEdge1 = reverseEdge
              otherEdge == IF isCurrent THEN possibleEdge2 ELSE possibleEdge1
              originalEdge == IF isCurrent THEN possibleEdge1 ELSE possibleEdge2
          IN  IF originalEdge = otherEdge
                THEN r
                ELSE
                  LET o == OrientedMerge(map, positionAttr, edge)
                      index0 == ReplaceDeleted(r.vertexAliases, o[1])
                      index1 == ReplaceDeleted(r.vertexAliases, o[2])
                      index2 == ReplaceDeleted(r.vertexAliases, o[3])
                      index3 == ReplaceDeleted(r.vertexAliases, o[4])
                  IN  [edgesToMergeMap |-> Delete(Delete(map, edgeKeyToUse), <<index2, index3>>),
                       mergedMap |-> merge(merge(r.mergedMap, index0, index2), index1, index3),
                       vertexAliases |->
                         aliasDeletedVertex(aliasDeletedVertex(r.vertexAliases, index2, index0),
                                            index3, index1)]

\* The resolver's tables after the first n edge visits (3 per triangle, in order).
RECURSIVE ResolveUpTo(_, _, _, _)
ResolveUpTo(pairs, positionAttr, indexBuf, n) ==
  IF n = 0
    THEN ResolverInit(pairs)
    ELSE ResolveEdge(ResolveUpTo(pairs, positionAttr, indexBuf, n - 1), positionAttr,
                     TriangleEdges(indexBuf, (n - 1) \div 3)[((n - 1) % 3) + 1])

Min(S) == CHOOSE x \in S : \A y \in S : x <= y

\* fillOutMergeMap's loops, over the keys not yet visited: Object.keys lists
\* integer keys in ascending order.
RECURSIVE FillFrom(_, _, _)
RECURSIVE FillList(_, _, _, _)
FillList(newMergeMap, list, key, n) ==
  IF n > Len(list)
    THEN newMergeMap
    ELSE FillList(Put(newMergeMap, list[n], key), list, key, n + 1)

FillFrom(newMergeMap, mergeMap, keys) ==
  IF keys = {}
    THEN newMergeMap
    ELSE LET key == Min(keys)
         IN  FillFrom(FillList(newMergeMap, mergeMap[key], key, 1), mergeMap, keys \ {key})

fillOutMergeMap(mergeMap) == FillFrom(EmptyMap, mergeMap, DOMAIN mergeMap)

\* A rewriter that follows the alias table a second time.
RewriteIndexTwice(finalMergeMap, index) ==
  IF index \in DOMAIN finalMergeMap
    THEN IF finalMergeMap[index] \in DOMAIN finalMergeMap
           THEN finalMergeMap[finalMergeMap[index]]
           ELSE finalMergeMap[index]
    ELSE index

\* A rewrite that also renumbers the vertices that remain, leaving no gap where a
\* vertex was merged away.
RewriteIndexCompacting(finalMergeMap, index) ==
  LET newIndex == IF index \in DOMAIN finalMergeMap THEN finalMergeMap[index] ELSE index
  IN  newIndex - Cardinality({d \in DOMAIN finalMergeMap : d < newIndex})

\* `if (finalMergeMap[index] != undefined) newIndex = finalMergeMap[index]`
RewriteIndex(finalMergeMap, index) ==
  IF index \in DOMAIN finalMergeMap THEN finalMergeMap[index] ELSE index

\* The loop that pushes one new index per element of the index buffer, from
\* element n (1-based) on.
RECURSIVE RewriteFrom(_, _, _, _)
RewriteFrom(out, finalMergeMap, indexBuf, n) ==
  IF n > Len(indexBuf)
    THEN out
    ELSE RewriteFrom(Append(out, RewriteIndex(finalMergeMap, indexBuf[n])),
                     finalMergeMap, indexBuf, n + 1)

\* A rewriter that drops the merged indices instead of replacing them.
RewriteIndicesDroppingMerged(mergeMap, indexBuf) ==
  SelectSeq(indexBuf, LAMBDA index : index \notin DOMAIN fillOutMergeMap(mergeMap))

RewriteIndices(mergeMap, indexBuf) == RewriteFrom(<< >>, fillOutMergeMap(mergeMap), indexBuf, 1)

\* weldVertices(vertices, indices, thresholdAngle) as a function of its arguments.
weldVertices(positionAttr, indexBuf, threshold) ==
  LET pairs == computeEdgesToMerge(positionAttr, indexBuf, threshold)
      r == ResolveUpTo(pairs, positionAttr, indexBuf, 3 * NumTriangles(indexBuf))
  IN  RewriteIndices(r.mergedMap, indexBuf)

\* One whole call of weldVertices that finds the scratch vectors as `scratch`:
\* the buffer it returns and the scratch vectors it leaves.
weldVerticesInto(scratch, positionAttr, indexBuf, threshold) ==
  LET ms == MatchUpToInto(scratch, positionAttr, indexBuf, threshold, NumTriangles(indexBuf))
      r == ResolveUpTo(ms.edgesToMerge, positionAttr, indexBuf, 3 * NumTriangles(indexBuf))
  IN  [result |-> RewriteIndices(r.mergedMap, indexBuf), scratch |-> ms.scratch]

-----------------------------------------------------------------------------
(* The checked inputs: index buffers over one position buffer *)

\* The position buffer, one point per vertex, in units of its edge length.  Vertices
\* 0..5 are those of tests/VertexWelder.test.ts (two halves of the unit square,
\* vertex 3 at the place of vertex 1 and vertex 5 at the place of vertex 2); 6..11
\* are further copies of the origin and of the corners, and an apex above the origin.
\*    0, 6, 10: (0,0,0)    1, 3, 8: (1,0,0)    2, 5, 9: (0,1,0)    4: (1,1,0)    7, 11: (0,0,1)
VertexPoints ==
  <<(<<0, 0, 0>>), (<<1, 0, 0>>), (<<0, 1, 0>>), (<<1, 0, 0>>), (<<1, 1, 0>>), (<<0, 1, 0>>),
    (<<0, 0, 0>>), (<<0, 0, 1>>), (<<1, 0, 0>>), (<<0, 1, 0>>), (<<0, 0, 0>>), (<<0, 0, 1>>)>>

\* The flat position buffer with every edge scaled to `scale` model units.
PositionBuffer(scale) ==
  [p \in 1 .. 3 * Len(VertexPoints) |->
     scale * VertexPoints[((p - 1) \div 3) + 1][((p - 1) % 3) + 1]]

\* Edge lengths: 1/CoordDen = 0.05 (below the resolver's 0.1 tolerance) and 1.
Scales == {1, CoordDen}

Thresholds == {1, 90, 120}

\* The triangles an index buffer is made of.
Catalog ==
  { <<0, 1, 2>>,    \* lower half of the square (the test's first triangle)
    <<3, 4, 5>>,    \* upper half, on copies of 1 and 2 (the test's second triangle)
    <<5, 3, 4>>,    \* the same triangle, rotated
    <<3, 5, 4>>,    \* the same triangle, winding reversed
    <<1, 4, 2>>,    \* upper half on the lower half's own vertices 1 and 2
    <<6, 8, 9>>,    \* a second copy of the lower half
    <<6, 9, 7>>,    \* wall at 90 degrees on the edge (0,0,0)-(0,1,0)
    <<8, 10, 11>>,  \* wall at 90 degrees on the edge (0,0,0)-(1,0,0)
    <<8, 9, 7>>,    \* slanted face on the diagonal, 54.7 degrees to the square
    <<1, 3, 4>> }   \* degenerate: vertices 1 and 3 at one place

\* The triangles of Catalog that lie on the diagonal (1,0,0)-(0,1,0).
EdgeCatalog ==
  { <<0, 1, 2>>, <<3, 4, 5>>, <<3, 5, 4>>, <<1, 4, 2>>, <<6, 8, 9>>, <<8, 9, 7>> }

\* Index buffers of 1 .. n triangles of a catalog.
RECURSIVE Flatten(_)
Flatten(tris) == IF tris = << >> THEN << >> ELSE Head(tris) \o Flatten(Tail(tris))

IndexBuffers(catalog, n) == {Flatten(tris) : tris \in UNION {[1 .. k -> catalog] : k \in 1 .. n}}

\* No OutlineEffect is mounted and no outline pass exists.
NoOutlineEffect ==
  /\ component = [mounted |-> FALSE]
  /\ resources = << >>
  /\ colors = << >>
  /\ rendered = << >>
  /\ outlinePass = << >>

-----------------------------------------------------------------------------
(* The state machine: one call of weldVertices *)

Start(vs, idx, t) ==
  /\ vertices = vs
  /\ indices = idx
  /\ thresholdAngle = t
  /\ pc = "match"
  /\ tri = 0
  /\ edgeNo = 0
  /\ edgeData = EmptyMap
  /\ edgesToMerge = << >>
  /\ edgesToMergeMap = EmptyMap
  /\ mergedMap = EmptyMap
  /\ vertexAliases = EmptyMap
  /\ newIndexBuffer = << >>
  /\ _v0 = ScratchInit.v0
  /\ _normal = ScratchInit.normal
  /\ calls = << >>
  /\ surfaceId = 0
  /\ attributes = << >>
  /\ NoOutlineEffect

Init ==
  \E idx \in IndexBuffers(Catalog, MaxTris), scale \in Scales, t \in Thresholds :
    Start(PositionBuffer(scale), idx, t)

\* Meshes whose triangles all lie on one geometric edge (non-manifold fans).
InitEdge ==
  \E idx \in IndexBuffers(EdgeCatalog, MaxEdgeTris), scale \in Scales, t \in Thresholds :
    Start(PositionBuffer(scale), idx, t)

\* computeEdgesToMerge: one triangle of its loop.
MatchStep ==
  /\ pc = "match"
  /\ tri < NumTriangles(indices)
  /\ LET m == MatchTriangle([edgeData |-> edgeData, edgesToMerge |-> edgesToMerge],
                            vertices, indices, tri, thresholdAngle)
         t == TriangleIndices(indices, tri)
         scratch == getNormalInto([v0 |-> _v0, normal |-> _normal],
                                  getVertexFromIndexBuffer(t[1], vertices),
                                  getVertexFromIndexBuffer(t[2], vertices),
                                  getVertexFromIndexBuffer(t[3], vertices))
     IN  /\ edgeData' = m.edgeData
         /\ edgesToMerge' = m.edgesToMerge
         /\ _v0' = scratch.v0
         /\ _normal' = scratch.normal
  /\ tri' = tri + 1
  /\ UNCHANGED outlineVars
  /\ UNCHANGED <<vertices, indices, thresholdAngle, pc, edgeNo, edgesToMergeMap,
                 mergedMap, vertexAliases, newIndexBuffer, calls,
                 surfaceId, attributes>>

\* computeEdgesToMerge returns; weldVertices turns the pairs into edgesToMergeMap.
BuildMap ==
  /\ pc = "match"
  /\ tri = NumTriangles(indices)
  /\ edgesToMergeMap' = BuildEdgesToMergeMap(EmptyMap, edgesToMerge, 1)
  /\ pc' = "resolve"
  /\ tri' = 0
  /\ edgeNo' = 0
  /\ UNCHANGED outlineVars
  /\ UNCHANGED <<vertices, indices, thresholdAngle, edgeData, edgesToMerge,
                 mergedMap, vertexAliases, newIndexBuffer, _v0, _normal, calls,
                 surfaceId, attributes>>

\* weldVertices: one edge of one triangle of its triangle loop.
ResolveStep ==
  /\ pc = "resolve"
  /\ tri < NumTriangles(indices)
  /\ LET r == ResolveEdge([edgesToMergeMap |-> edgesToMergeMap, mergedMap |-> mergedMap,
                           vertexAliases |-> vertexAliases],
                          vertices, TriangleEdges(indices, tri)[edgeNo + 1])
     IN  /\ edgesToMergeMap' = r.edgesToMergeMap
         /\ mergedMap' = r.mergedMap
         /\ vertexAliases' = r.vertexAliases
  /\ edgeNo' = (edgeNo + 1) % 3
  /\ tri' = IF edgeNo = 2 THEN tri + 1 ELSE tri
  /\ UNCHANGED outlineVars
  /\ UNCHANGED <<vertices, indices, thresholdAngle, pc, edgeData, edgesToMerge,
                 newIndexBuffer, _v0, _normal, calls,
                 surfaceId, attributes>>

\* A rewrite that stores the new indices into the caller's array and returns it.
RewriteInPlace ==
  /\ pc = "resolve"
  /\ tri = NumTriangles(indices)
  /\ indices' = RewriteIndices(mergedMap, indices)
  /\ newIndexBuffer' = indices'
  /\ pc' = "done"
  /\ UNCHANGED outlineVars
  /\ UNCHANGED <<vertices, thresholdAngle, tri, edgeNo, edgeData, edgesToMerge,
                 edgesToMergeMap, mergedMap, vertexAliases, _v0, _normal, calls,
                 surfaceId, attributes>>

\* weldVertices: fillOutMergeMap, the rewrite of the index buffer, and the return.
Rewrite ==
  /\ pc = "resolve"
  /\ tri = NumTriangles(indices)
  /\ newIndexBuffer' = RewriteIndices(mergedMap, indices)
  /\ pc' = "done"
  /\ UNCHANGED outlineVars
  /\ UNCHANGED <<vertices, indices, thresholdAngle, tri, edgeNo, edgeData, edgesToMerge,
                 edgesToMergeMap, mergedMap, vertexAliases, _v0, _normal, calls,
                 surfaceId, attributes>>

Next == MatchStep \/ BuildMap \/ ResolveStep \/ Rewrite

Spec == Init /\ [][Next]_vars

SpecEdge == InitEdge /\ [][Next]_vars

-----------------------------------------------------------------------------
(* The state machine: calls of weldVertices one after the other in one module *)

\* The index buffers of the calls: the test mesh, the fold of 90 degrees, the
\* slanted face against the square, the degenerate triangle.
CallMeshes ==
  { <<0, 1, 2, 3, 4, 5>>, <<0, 1, 2, 6, 9, 7>>, <<8, 9, 7, 0, 1, 2>>, <<1, 3, 4>> }

\* The module is loaded and weldVertices has not been called.
InitCalls ==
  /\ vertices = << >>
  /\ indices = << >>
  /\ thresholdAngle = 0
  /\ pc = "idle"
  /\ tri = 0
  /\ edgeNo = 0
  /\ edgeData = EmptyMap
  /\ edgesToMerge = << >>
  /\ edgesToMergeMap = EmptyMap
  /\ mergedMap = EmptyMap
  /\ vertexAliases = EmptyMap
  /\ newIndexBuffer = << >>
  /\ _v0 = ScratchInit.v0
  /\ _normal = ScratchInit.normal
  /\ calls = << >>
  /\ surfaceId = 0
  /\ attributes = << >>
  /\ NoOutlineEffect

\* One call of weldVertices, from entry to return; its tables are local to it, the
\* scratch vectors stay as it leaves them.
Invoke ==
  /\ pc = "idle"
  /\ Len(calls) < MaxCalls
  /\ \E idx \in CallMeshes, t \in Thresholds :
       LET w == weldVerticesInto([v0 |-> _v0, normal |-> _normal],
                                 PositionBuffer(CoordDen), idx, t)
       IN  /\ vertices' = PositionBuffer(CoordDen)
           /\ indices' = idx
           /\ thresholdAngle' = t
           /\ newIndexBuffer' = w.result
           /\ _v0' = w.scratch.v0
           /\ _normal' = w.scratch.normal
           /\ calls' = Append(calls, [indices |-> idx, thresholdAngle |-> t,
                                      result |-> w.result])
  /\ UNCHANGED outlineVars
  /\ UNCHANGED <<pc, tri, edgeNo, edgeData, edgesToMerge, edgesToMergeMap, mergedMap,
                 vertexAliases, surfaceId, attributes>>

NextCalls == Invoke

SpecCalls == InitCalls /\ [][NextCalls]_vars

-----------------------------------------------------------------------------
(* FindSurfaces (the Surface Segmenter), after section 4.4 of the specification *)

\* The value of a vertex that no triangle refers to.
NoSurface == -1

NumVertices(mesh) == Len(mesh.position) \div 3

\* The rounded positions of the three corners of triangle s of a mesh.
CornerHashes(mesh, s) ==
  LET t == TriangleIndices(mesh.index, s)
  IN  <<hashVertex(getVertexFromIndexBuffer(t[1], mesh.position)),
        hashVertex(getVertexFromIndexBuffer(t[2], mesh.position)),
        hashVertex(getVertexFromIndexBuffer(t[3], mesh.position))>>

MeshNormal(mesh, s) ==
  LET t == TriangleIndices(mesh.index, s)
  IN  getNormal(getVertexFromIndexBuffer(t[1], mesh.position),
                getVertexFromIndexBuffer(t[2], mesh.position),
                getVertexFromIndexBuffer(t[3], mesh.position))

\* Two triangles share an edge, whatever the angle between them.
SharedEdge(hs, ht, ns, nt, threshold) ==
  \E j, k \in 1 .. 3 : hs[j] = ht[(k % 3) + 1] /\ hs[(j % 3) + 1] = ht[k]

\* Two triangles, of corner positions hs and ht and face normals ns and nt, share a
\* smooth edge: a side of each on one geometric edge, run in opposite directions,
\* and face normals less than the threshold apart (the criterion of the Edge
\* Matcher).
SmoothEdge(hs, ht, ns, nt, threshold) ==
  /\ Cardinality({hs[1], hs[2], hs[3]}) = 3
  /\ Cardinality({ht[1], ht[2], ht[3]}) = 3
  /\ \E j, k \in 1 .. 3 : hs[j] = ht[(k % 3) + 1] /\ hs[(j % 3) + 1] = ht[k]
  /\ DotExceedsThreshold(ns, nt, threshold)

\* The corner positions and the face normal of triangles 0 .. n-1, in a list.
RECURSIVE TriangleTable(_, _)
TriangleTable(mesh, n) ==
  IF n = 0
    THEN << >>
    ELSE Append(TriangleTable(mesh, n - 1),
                [hashes |-> CornerHashes(mesh, n - 1), normal |-> MeshNormal(mesh, n - 1)])

\* The smooth edges of the triangle-adjacency graph: the pairs <<s, t>> of
\* triangles across a smooth edge.
SmoothAdjacency(mesh, threshold) ==
  LET tris == 0 .. NumTriangles(mesh.index) - 1
      table == TriangleTable(mesh, NumTriangles(mesh.index))
  IN  UNION {{<<s, t>> : t \in {u \in tris :
                                  /\ u # s
                                  /\ SmoothEdge(table[s + 1].hashes, table[u + 1].hashes,
                                                table[s + 1].normal, table[u + 1].normal,
                                                threshold)}} : s \in tris}

\* The flood fill: the triangles reached from `frontier` through smooth edges.
RECURSIVE Flood(_, _, _)
Flood(adjacent, frontier, seen) ==
  LET next == {st[2] : st \in {e \in adjacent : e[1] \in frontier}} \ seen
  IN  IF next = {} THEN seen ELSE Flood(adjacent, next, seen \cup next)

\* The vertices of a set of triangles.
VerticesOf(mesh, tris) ==
  UNION {{mesh.index[3 * s + 1], mesh.index[3 * s + 2], mesh.index[3 * s + 3]} : s \in tris}

\* A labelling that gives every surface of every mesh the identifier the counter
\* had when the mesh was handed in.
LabelWithoutCounting(st, mesh, adjacent, s) ==
  [labels |-> [v \in VerticesOf(mesh, 0 .. NumTriangles(mesh.index) - 1) |-> st.surfaceId],
   visited |-> 0 .. NumTriangles(mesh.index) - 1,
   surfaceId |-> st.surfaceId]

\* Visit the triangles from s on: an unvisited triangle starts a surface, the
\* vertices of every triangle of the surface get the current identifier, and the
\* identifier is incremented.  st holds labels, visited and surfaceId.
RECURSIVE LabelFrom(_, _, _, _)
LabelFrom(st, mesh, adjacent, s) ==
  IF s >= NumTriangles(mesh.index)
    THEN st
    ELSE IF s \in st.visited
           THEN LabelFrom(st, mesh, adjacent, s + 1)
           ELSE LET surface == Flood(adjacent, {s}, {s})
                    vs == VerticesOf(mesh, surface)
                IN  LabelFrom([labels |-> [v \in DOMAIN st.labels \cup vs |->
                                            IF v \in vs THEN st.surfaceId ELSE st.labels[v]],
                               visited |-> st.visited \cup surface,
                               surfaceId |-> st.surfaceId + 1],
                              mesh, adjacent, s + 1)

\* A segmenter that numbers the surfaces of every mesh from 0.
getSurfaceIdAttributeFromZero(counter, mesh, threshold) ==
  LET st == LabelFrom([labels |-> EmptyMap, visited |-> {}, surfaceId |-> 0],
                      mesh, SmoothAdjacency(mesh, threshold), 0)
  IN  [attribute |->
         [p \in 1 .. 4 * NumVertices(mesh) |->
            CASE (p - 1) % 4 = 0 ->
                   IF (p - 1) \div 4 \in DOMAIN st.labels
                     THEN st.labels[(p - 1) \div 4] ELSE NoSurface
              [] (p - 1) % 4 = 3 -> 1
              [] OTHER -> 0],
       surfaceId |-> counter + st.surfaceId]

\* An attribute with three components per vertex: the identifier and two more.
getSurfaceIdAttributeRGB(counter, mesh, threshold) ==
  LET st == LabelFrom([labels |-> EmptyMap, visited |-> {}, surfaceId |-> counter],
                      mesh, SmoothAdjacency(mesh, threshold), 0)
  IN  [attribute |->
         [p \in 1 .. 3 * NumVertices(mesh) |->
            IF (p - 1) % 3 = 0
              THEN IF (p - 1) \div 3 \in DOMAIN st.labels
                     THEN st.labels[(p - 1) \div 3] ELSE NoSurface
              ELSE 0],
       surfaceId |-> st.surfaceId]

\* getSurfaceIdAttribute(mesh) of an instance whose counter is `counter`: the
\* attribute, four components per vertex with the identifier first, and the
\* counter after the call.
getSurfaceIdAttribute(counter, mesh, threshold) ==
  LET st == LabelFrom([labels |-> EmptyMap, visited |-> {}, surfaceId |-> counter],
                      mesh, SmoothAdjacency(mesh, threshold), 0)
  IN  [attribute |->
         [p \in 1 .. 4 * NumVertices(mesh) |->
            CASE (p - 1) % 4 = 0 ->
                   IF (p - 1) \div 4 \in DOMAIN st.labels
                     THEN st.labels[(p - 1) \div 4] ELSE NoSurface
              [] (p - 1) % 4 = 3 -> 1
              [] OTHER -> 0],
       surfaceId |-> st.surfaceId]

\* The flat position buffer of a list of points, one model unit = 1/CoordDen.
Positions(points) ==
  [p \in 1 .. 3 * Len(points) |-> CoordDen * points[((p - 1) \div 3) + 1][((p - 1) % 3) + 1]]

\* The six faces of the unit cube, four corners each, as seen from outside.
CubeFaces ==
  <<(<<(<<0, 0, 0>>), (<<0, 1, 0>>), (<<1, 1, 0>>), (<<1, 0, 0>>)>>),
    (<<(<<0, 0, 1>>), (<<1, 0, 1>>), (<<1, 1, 1>>), (<<0, 1, 1>>)>>),
    (<<(<<0, 0, 0>>), (<<1, 0, 0>>), (<<1, 0, 1>>), (<<0, 0, 1>>)>>),
    (<<(<<0, 1, 0>>), (<<0, 1, 1>>), (<<1, 1, 1>>), (<<1, 1, 0>>)>>),
    (<<(<<0, 0, 0>>), (<<0, 0, 1>>), (<<0, 1, 1>>), (<<0, 1, 0>>)>>),
    (<<(<<1, 0, 0>>), (<<1, 1, 0>>), (<<1, 1, 1>>), (<<1, 0, 1>>)>>)>>

\* new THREE.Mesh(new THREE.BoxGeometry(1, 1, 1)), moved by `shift` along x: four
\* vertices of its own and two triangles per face.
Box(shift) ==
  [position |->
     Positions([v \in 1 .. 24 |->
                  LET c == CubeFaces[((v - 1) \div 4) + 1][((v - 1) % 4) + 1]
                  IN  <<c[1] + shift, c[2], c[3]>>]),
   index |->
     [i \in 1 .. 36 |->
        4 * ((i - 1) \div 6) + (<<0, 1, 2, 0, 2, 3>>)[((i - 1) % 6) + 1]]]

\* Two meshes in one: the second's indices follow the first's vertices.
Merged(m1, m2) ==
  [position |-> m1.position \o m2.position,
   index |-> m1.index \o [i \in 1 .. Len(m2.index) |-> m2.index[i] + NumVertices(m1)]]

\* The meshes handed to FindSurfaces: a cube, two cubes apart, the two halves of the
\* square on vertices of their own, the fold of 90 degrees on vertices of its own,
\* the same fold with the two vertices of the folded edge shared, and a mesh
\* without vertices.
SurfaceMeshes ==
  { [position |-> << >>, index |-> << >>],
    Box(0),
    Merged(Box(0), Box(3)),
    [position |-> Positions(SubSeq(VertexPoints, 1, 6)), index |-> <<0, 1, 2, 3, 4, 5>>],
    [position |-> Positions(<<(<<0, 0, 0>>), (<<1, 0, 0>>), (<<0, 1, 0>>),
                              (<<0, 0, 0>>), (<<0, 1, 0>>), (<<0, 0, 1>>)>>),
     index |-> <<0, 1, 2, 3, 4, 5>>],
    [position |-> Positions(<<(<<0, 0, 0>>), (<<1, 0, 0>>), (<<0, 1, 0>>), (<<0, 0, 1>>)>>),
     index |-> <<0, 1, 2, 0, 2, 3>>] }

-----------------------------------------------------------------------------
(* The state machine: one FindSurfaces instance and the meshes handed to it *)

\* new FindSurfaces(); the threshold of the smooth-edge criterion is fixed for it.
InitSurfaces ==
  /\ vertices = << >>
  /\ indices = << >>
  /\ thresholdAngle \in Thresholds
  /\ pc = "idle"
  /\ tri = 0
  /\ edgeNo = 0
  /\ edgeData = EmptyMap
  /\ edgesToMerge = << >>
  /\ edgesToMergeMap = EmptyMap
  /\ mergedMap = EmptyMap
  /\ vertexAliases = EmptyMap
  /\ newIndexBuffer = << >>
  /\ _v0 = ScratchInit.v0
  /\ _normal = ScratchInit.normal
  /\ calls = << >>
  /\ surfaceId = 0
  /\ attributes = << >>
  /\ NoOutlineEffect

\* findSurfaces.getSurfaceIdAttribute(mesh)
GetSurfaceIdAttribute ==
  /\ Len(attributes) < MaxMeshes
  /\ \E mesh \in SurfaceMeshes :
       LET r == getSurfaceIdAttribute(surfaceId, mesh, thresholdAngle)
       IN  /\ surfaceId' = r.surfaceId
           /\ attributes' = Append(attributes, [mesh |-> mesh, attribute |-> r.attribute,
                                                before |-> surfaceId, after |-> r.surfaceId])
  /\ UNCHANGED outlineVars
  /\ UNCHANGED <<vertices, indices, thresholdAngle, pc, tri, edgeNo, edgeData, edgesToMerge,
                 edgesToMergeMap, mergedMap, vertexAliases, newIndexBuffer, _v0, _normal,
                 calls>>

NextSurfaces == GetSurfaceIdAttribute

SpecSurfaces == InitSurfaces /\ [][NextSurfaces]_vars

-----------------------------------------------------------------------------
(* Vocabulary of the claims *)

Done == pc = "done"

Range(f) == {f[x] : x \in DOMAIN f}

\* The alias table the Index Rewriter applies.
FinalMergeMap == fillOutMergeMap(mergedMap)

\* The rounded position of a vertex of the current mesh.
PositionOf(index) == hashVertex(getVertexFromIndexBuffer(index, vertices))

Triangles == 0 .. NumTriangles(indices) - 1

\* The place in the index buffer of corner j (0..2) of triangle s.
Slot(s, j) == 3 * s + (j % 3) + 1

FaceNormal(s) ==
  LET t == TriangleIndices(indices, s)
  IN  getNormal(getVertexFromIndexBuffer(t[1], vertices),
                getVertexFromIndexBuffer(t[2], vertices),
                getVertexFromIndexBuffer(t[3], vertices))

Degenerate(s) ==
  LET t == TriangleIndices(indices, s)
  IN  \/ PositionOf(t[1]) = PositionOf(t[2])
      \/ PositionOf(t[2]) = PositionOf(t[3])
      \/ PositionOf(t[3]) = PositionOf(t[1])

\* Side j of triangle s and side k of triangle t are the same geometric edge run
\* in opposite directions (the two triangles lie on either side of it), and the
\* angle between the two face normals is below thresholdAngle.
SmoothSiblings(s, j, t, k) ==
  /\ s # t
  /\ ~Degenerate(s)
  /\ ~Degenerate(t)
  /\ PositionOf(indices[Slot(s, j)]) = PositionOf(indices[Slot(t, k + 1)])
  /\ PositionOf(indices[Slot(s, j + 1)]) = PositionOf(indices[Slot(t, k)])
  /\ DotExceedsThreshold(FaceNormal(s), FaceNormal(t), thresholdAngle)

\* The vertex indices that a rewritten buffer replaces by another index.
Welded(indexBuf, out) == {indexBuf[i] : i \in {i \in DOMAIN indexBuf : out[i] # indexBuf[i]}}

\* The geometric edge (an unordered pair of rounded positions) of an index pair.
GeometricEdge(edge) == {PositionOf(edge[1]), PositionOf(edge[2])}

\* The merge pairs emitted so far for geometric edge g.
PairsOn(g) == {p \in DOMAIN edgesToMerge : GeometricEdge(edgesToMerge[p][1]) = g}

\* The non-degenerate triangles with a side on geometric edge g.
IncidentTriangles(g) ==
  {s \in Triangles :
     /\ ~Degenerate(s)
     /\ \E j \in 0 .. 2 : GeometricEdge(<<indices[Slot(s, j)], indices[Slot(s, j + 1)]>>) = g}

-----------------------------------------------------------------------------
(* Claims *)

\* C1: the buffer weldVertices returns has the length of the input index buffer,
\* hence a multiple of 3 whenever the input length is one.
C1_LengthPreserved ==
  Done => /\ Len(newIndexBuffer) = Len(indices)
          /\ (Len(indices) % 3 = 0 => Len(newIndexBuffer) % 3 = 0)

\* A three-triangle mesh has been welded and some index was rewritten.
C1_Witness == Done /\ Len(indices) = 9 /\ newIndexBuffer # indices

\* C2: the output is the input rewritten slot by slot through the one alias table:
\* an index in the table becomes its entry, any other index stays, so equal input
\* indices give equal output indices and no slot moves.
C2_SlotwiseMapping ==
  Done => /\ DOMAIN newIndexBuffer = DOMAIN indices
          /\ \A i \in DOMAIN indices :
               newIndexBuffer[i] = IF indices[i] \in DOMAIN FinalMergeMap
                                     THEN FinalMergeMap[indices[i]]
                                     ELSE indices[i]
          /\ \A i, j \in DOMAIN indices :
               indices[i] = indices[j] => newIndexBuffer[i] = newIndexBuffer[j]

\* An index that occurs in two triangles was rewritten, another index was left alone.
C2_Witness ==
  /\ Done
  /\ \E i, j \in DOMAIN indices :
       i # j /\ indices[i] = indices[j] /\ newIndexBuffer[i] # indices[i]
  /\ \E i \in DOMAIN indices : newIndexBuffer[i] = indices[i]

\* C3 (as claimed): two triangles on either side of a geometric edge, with
\* duplicated vertices along it and normals closer than thresholdAngle, reference
\* the same vertex index at both endpoints of the edge in the returned buffer.
C3_SmoothEdgesWelded ==
  Done =>
    \A s, t \in Triangles, j, k \in 0 .. 2 :
      SmoothSiblings(s, j, t, k) =>
        /\ newIndexBuffer[Slot(s, j)] = newIndexBuffer[Slot(t, k + 1)]
        /\ newIndexBuffer[Slot(s, j + 1)] = newIndexBuffer[Slot(t, k)]

\* C4: scenario A, the mesh of tests/VertexWelder.test.ts with unit edges and a
\* threshold of 1 degree, is welded to [0,1,2, 1,4,2].
C4_ScenarioA ==
  (/\ Done
   /\ vertices = PositionBuffer(CoordDen)
   /\ indices = <<0, 1, 2, 3, 4, 5>>
   /\ thresholdAngle = 1)
  => newIndexBuffer = <<0, 1, 2, 1, 4, 2>>

C4_Witness ==
  /\ Done
  /\ vertices = PositionBuffer(CoordDen)
  /\ indices = <<0, 1, 2, 3, 4, 5>>
  /\ thresholdAngle = 1
  /\ newIndexBuffer # indices

\* No two triangles lie on either side of a geometric edge with normals closer
\* than thresholdAngle.
NoSmoothSiblings ==
  \A s, t \in Triangles, j, k \in 0 .. 2 : ~SmoothSiblings(s, j, t, k)

\* C5: without a pair of sibling edges within the threshold nothing is merged and
\* the returned buffer equals the input.
C5_NoSiblingNoChange ==
  (Done /\ NoSmoothSiblings) => (newIndexBuffer = indices /\ mergedMap = EmptyMap)

\* Scenario B: the lower half of the square and the wall at 90 degrees on its
\* edge, threshold 1 degree.
C5_Witness ==
  /\ Done
  /\ NoSmoothSiblings
  /\ indices = <<0, 1, 2, 6, 9, 7>>
  /\ thresholdAngle = 1
  /\ newIndexBuffer = indices

\* C6 (as claimed): welding the welded buffer again, with the same threshold,
\* changes no index.
C6_Idempotent ==
  Done => weldVertices(vertices, newIndexBuffer, thresholdAngle) = newIndexBuffer

\* C7 (as claimed): the alias table is flattened: an index mapped to another index
\* maps to a representative that the table maps to no other index.
C7_Flattened ==
  Done =>
    \A k \in DOMAIN FinalMergeMap :
      FinalMergeMap[k] # k =>
        \/ FinalMergeMap[k] \notin DOMAIN FinalMergeMap
        \/ FinalMergeMap[FinalMergeMap[k]] = FinalMergeMap[k]

\* C8 (as claimed): index 0 is a representative like any other: a vertex aliased
\* to 0 resolves to 0 at every later replacement of deleted indices, and once
\* merge(0, d) has made 0 the representative of d, every occurrence of d in the
\* output is 0 and 0 itself is not rewritten.
C8_IndexZero ==
  /\ \A d \in DOMAIN vertexAliases :
       vertexAliases[d] = 0 => ReplaceDeleted(vertexAliases, d) = 0
  /\ (Done /\ 0 \in DOMAIN mergedMap) =>
       \A i \in DOMAIN indices :
         (indices[i] = 0 \/ indices[i] \in Range(mergedMap[0])) => newIndexBuffer[i] = 0

\* C9 (as claimed): for thresholds t1 <= t2 the weld at t2 replaces at least as
\* many vertex indices as the weld at t1.
C9_ThresholdMonotone ==
  Done =>
    \A t2 \in Thresholds :
      thresholdAngle <= t2 =>
        Cardinality(Welded(indices, weldVertices(vertices, indices, t2)))
          >= Cardinality(Welded(indices, newIndexBuffer))

C11_DegenerateSkipped ==
  /\ [][(pc = "match" /\ tri < NumTriangles(indices) /\ Degenerate(tri))
          => (edgeData' = edgeData /\ edgesToMerge' = edgesToMerge)]_vars
  /\ []((Done /\ \A s \in Triangles : Degenerate(s))
          => (edgesToMerge = << >> /\ FinalMergeMap = EmptyMap /\ newIndexBuffer = indices))

\* A degenerate triangle next to two triangles that were welded.
C11_Witness ==
  /\ Done
  /\ Len(indices) = 9
  /\ Degenerate(1)
  /\ edgeData # EmptyMap
  /\ newIndexBuffer # indices

Sgn(x) == IF x > 0 THEN 1 ELSE IF x < 0 THEN -1 ELSE 0

\* Side j (0..2) of triangle s as the Edge Matcher reads it: corner j to corner j+1.
Side(s, j) == <<indices[Slot(s, j)], indices[Slot(s, j + 1)]>>

\* Side j of triangle s and side k of triangle t are one geometric edge run in
\* opposite directions, and neither triangle is degenerate.
SiblingSides(s, j, t, k) ==
  /\ s # t
  /\ ~Degenerate(s)
  /\ ~Degenerate(t)
  /\ PositionOf(Side(s, j)[1]) = PositionOf(Side(t, k)[2])
  /\ PositionOf(Side(s, j)[2]) = PositionOf(Side(t, k)[1])

\* The angle between the face normals of triangles s and t against thresholdAngle:
\* 1 when the angle is smaller, 0 when equal, -1 when larger (cosines compared by
\* sign and square; both normals are non-zero).
AngleVsThreshold(s, t) ==
  LET d == dot(FaceNormal(s), FaceNormal(t))
      ab == lengthSq(FaceNormal(s)) * lengthSq(FaceNormal(t))
      c == CosSq(thresholdAngle)
      thresholdSign == IF thresholdAngle < 90 THEN 1 ELSE IF thresholdAngle = 90 THEN 0 ELSE -1
  IN  IF Sgn(d) # thresholdSign
        THEN Sgn(Sgn(d) - thresholdSign)
        ELSE Sgn(d) * Sgn(d * d * c[2] - c[1] * ab)

\* Every merge pair joins sibling sides of two triangles whose angle is at least
\* `least` against the threshold (1: below it, 0: at or below it), and in a mesh of
\* two triangles every such pair of sibling sides is a merge pair.
PairsExactlyWhen(least) ==
  pc # "match" =>
    /\ \A p \in DOMAIN edgesToMerge :
         \E s, t \in Triangles, j, k \in 0 .. 2 :
           /\ s < t
           /\ edgesToMerge[p] = <<Side(s, j), Side(t, k)>>
           /\ SiblingSides(s, j, t, k)
           /\ AngleVsThreshold(s, t) >= least
    /\ NumTriangles(indices) = 2 =>
         \A j, k \in 0 .. 2 :
           (SiblingSides(0, j, 1, k) /\ AngleVsThreshold(0, 1) >= least)
             => <<Side(0, j), Side(1, k)>> \in Range(edgesToMerge)

\* C12 (as claimed): a merge pair is emitted for two sibling edges exactly when the
\* angle between the face normals is at or below thresholdAngle.
C12_AtOrBelowThreshold == PairsExactlyWhen(0)

\* C12 (amended): a merge pair is emitted for two sibling edges exactly when the
\* angle between the face normals is strictly below thresholdAngle; siblings at
\* exactly the threshold are not merged.
C12_BelowThreshold == PairsExactlyWhen(1)

\* Two triangles folded to 90 degrees, threshold 90 degrees: siblings, no pair.
C12_Witness ==
  /\ pc = "resolve"
  /\ NumTriangles(indices) = 2
  /\ thresholdAngle = 90
  /\ \E j, k \in 0 .. 2 : SiblingSides(0, j, 1, k) /\ AngleVsThreshold(0, 1) = 0
  /\ edgesToMerge = << >>

\* C13: weldVertices leaves its arguments as they were: no step of the call changes
\* the position array or the index array, and the result is built in an array of
\* its own, empty until the rewrite loop fills it.
C13_ArgumentsUntouched ==
  /\ [][vertices' = vertices /\ indices' = indices]_vars
  /\ [](pc # "done" => newIndexBuffer = << >>)

\* A call has returned a buffer that differs from the index array it was given.
C13_Witness ==
  /\ Done
  /\ mergedMap # EmptyMap
  /\ newIndexBuffer # indices
  /\ Len(newIndexBuffer) = Len(indices)

\* C14: weldVertices is a function of its arguments: two calls with equal arguments
\* return equal buffers whatever calls were made in between, each the buffer a call
\* in a freshly loaded module returns; _v0 and _normal carry nothing over.
C14_Deterministic ==
  /\ \A i, j \in DOMAIN calls :
       (calls[i].indices = calls[j].indices /\ calls[i].thresholdAngle = calls[j].thresholdAngle)
         => calls[i].result = calls[j].result
  /\ \A i \in DOMAIN calls :
       calls[i].result = weldVerticesInto(ScratchInit, PositionBuffer(CoordDen),
                                          calls[i].indices, calls[i].thresholdAngle).result

\* The same welding call before and after a call on another mesh that left the
\* scratch vectors changed.
C14_Witness ==
  /\ Len(calls) = 3
  /\ calls[1].indices = calls[3].indices
  /\ calls[1].thresholdAngle = calls[3].thresholdAngle
  /\ calls[2].indices # calls[1].indices
  /\ calls[1].result # calls[1].indices
  /\ weldVerticesInto(ScratchInit, PositionBuffer(CoordDen), calls[2].indices,
                      calls[2].thresholdAngle).scratch
       # weldVerticesInto(ScratchInit, PositionBuffer(CoordDen), calls[1].indices,
                          calls[1].thresholdAngle).scratch

\* C19 (as claimed): no twisted weld: every recorded merge joins two vertices at one
\* rounded position, whatever the length of the shared edge, so every index of the
\* output refers to a vertex at the position of the index it replaces.
C19_NoTwistedWeld ==
  /\ \A k \in DOMAIN mergedMap :
       \A d \in Range(mergedMap[k]) : PositionOf(d) = PositionOf(k)
  /\ Done => \A i \in DOMAIN indices :
               PositionOf(newIndexBuffer[i]) = PositionOf(indices[i])

\* C20 (as claimed): a sibling that resolves to the current edge's own endpoints is
\* skipped, so the merge map never lists a vertex as merged with itself.
C20_NoSelfMerge ==
  \A k \in DOMAIN mergedMap : k \notin Range(mergedMap[k])

\* The identifiers written into an attribute.
WrittenIds(attribute) == {attribute[4 * v + 1] : v \in 0 .. (Len(attribute) \div 4) - 1}

\* The surfaces of a mesh: the sets of triangles joined by smooth edges.
Surfaces(mesh) ==
  LET adjacent == SmoothAdjacency(mesh, thresholdAngle)
  IN  {Flood(adjacent, {s}, {s}) : s \in 0 .. NumTriangles(mesh.index) - 1}

\* C15: the counter of a FindSurfaces instance grows with every
\* getSurfaceIdAttribute call on a mesh that has a triangle: after each such call it
\* is greater than before, so greater than after the call before and than at first.
C15_CounterIncreases ==
  /\ \A k \in DOMAIN attributes :
       /\ attributes[k].before = IF k = 1 THEN 0 ELSE attributes[k - 1].after
       /\ attributes[k].mesh.index # << >> => attributes[k].after > attributes[k].before
       /\ attributes[k].after >= attributes[k].before
  /\ surfaceId = IF attributes = << >> THEN 0 ELSE attributes[Len(attributes)].after

\* Three meshes with triangles have been processed by one instance.
C15_Witness ==
  /\ Len(attributes) = 3
  /\ \A k \in 1 .. 3 : attributes[k].mesh.index # << >>
  /\ attributes[1].mesh # attributes[2].mesh
  /\ surfaceId > attributes[2].after

\* C16: identifiers are never reused: the identifiers written for a mesh lie in the
\* range the counter ran through in its call, every surface of the mesh uses up one
\* identifier of its own, and the identifiers of two meshes are disjoint.
C16_IdsUnique ==
  /\ \A k \in DOMAIN attributes :
       /\ WrittenIds(attributes[k].attribute)
            \subseteq attributes[k].before .. attributes[k].after - 1
       /\ attributes[k].after - attributes[k].before
            = Cardinality(Surfaces(attributes[k].mesh))
  /\ \A k, l \in DOMAIN attributes :
       k # l => WrittenIds(attributes[k].attribute) \cap WrittenIds(attributes[l].attribute) = {}

\* The same cube handed in twice, with six faces told apart each time.
C16_Witness ==
  /\ Len(attributes) >= 2
  /\ attributes[1].mesh = Box(0)
  /\ attributes[2].mesh = Box(0)
  /\ Cardinality(WrittenIds(attributes[1].attribute)) = 6
  /\ Cardinality(WrittenIds(attributes[2].attribute)) = 6

IdsOf(k, tris) ==
  {attributes[k].attribute[4 * v + 1] : v \in VerticesOf(attributes[k].mesh, tris)}

\* The k-th mesh is labelled by surface: the vertices of the triangles of one
\* surface carry one identifier, and no identifier is on two surfaces.
LabelledBySurface(k) ==
  \A S1, S2 \in Surfaces(attributes[k].mesh) :
    /\ Cardinality(IdsOf(k, S1)) = 1
    /\ S1 # S2 => IdsOf(k, S1) \cap IdsOf(k, S2) = {}

\* No vertex of the mesh is used by triangles of two surfaces.
OwnVerticesPerSurface(mesh) ==
  \A S1, S2 \in Surfaces(mesh) :
    S1 # S2 => VerticesOf(mesh, S1) \cap VerticesOf(mesh, S2) = {}

\* Scenario D: a cube with a threshold of at most 90 degrees gets six identifiers,
\* one per face, and two cubes apart get at least two.
ScenarioD ==
  \A k \in DOMAIN attributes :
    /\ (attributes[k].mesh = Box(0) /\ thresholdAngle <= 90) =>
         /\ Cardinality(WrittenIds(attributes[k].attribute)) = 6
         /\ \A f \in 0 .. 5 : Cardinality(IdsOf(k, {2 * f, 2 * f + 1})) = 1
    /\ attributes[k].mesh = Merged(Box(0), Box(3)) =>
         /\ Cardinality(WrittenIds(attributes[k].attribute)) >= 2
         /\ IdsOf(k, 0 .. 11) \cap IdsOf(k, 12 .. 23) = {}

CurrentEdge == TriangleEdges(indices, tri)[edgeNo + 1]

CurrentKey ==
  IF <<CurrentEdge[2], CurrentEdge[1]>> \in DOMAIN edgesToMergeMap
    THEN <<CurrentEdge[2], CurrentEdge[1]>>
    ELSE CurrentEdge

\* C21 (as claimed): a merge pair is consumed once: when the resolver records a
\* merge for a pair, both lookup entries of that pair are gone afterwards, so no
\* later visit of either of its edges finds it again.
C21_PairConsumedOnce ==
  [][(pc = "resolve" /\ mergedMap' # mergedMap) =>
       /\ edgesToMergeMap[CurrentKey][1] \notin DOMAIN edgesToMergeMap'
       /\ edgesToMergeMap[CurrentKey][2] \notin DOMAIN edgesToMergeMap']_vars

\* The table key of side j of triangle s (its two rounded positions, in order), and
\* the key of the same geometric edge run the other way.
SideHash(s, j) == <<PositionOf(indices[Slot(s, j)]), PositionOf(indices[Slot(s, j + 1)])>>

ReverseSideHash(s, j) == <<PositionOf(indices[Slot(s, j + 1)]), PositionOf(indices[Slot(s, j)])>>

\* Side j of triangle s finds a stored sibling edge in the table.
FindsSibling(s, j) ==
  /\ ~Degenerate(s)
  /\ ReverseSideHash(s, j) \in DOMAIN edgeData
  /\ edgeData[ReverseSideHash(s, j)] # NullEdge

\* How often an index edge occurs among the triangle sides of the index buffer and
\* among the edges of the emitted merge pairs.
SideOccurrences(edge) ==
  Cardinality({sj \in Triangles \X (0 .. 2) : Side(sj[1], sj[2]) = edge})

PairOccurrences(edge) ==
  Cardinality({pq \in (DOMAIN edgesToMerge) \X {1, 2} : edgesToMerge[pq[1]][pq[2]] = edge})

\* The stored records that have been consumed.
Consumed == {h \in DOMAIN edgeData : edgeData[h] = NullEdge}

\* C22: in the Edge Matcher a stored edge record is consumed as soon as a sibling
\* edge is found, whether the angle test passes or not; a side that finds a sibling
\* is not stored and its pair, if any, joins it to the record it found; so a
\* triangle side is in at most one emitted merge pair: an index edge is in no more
\* pairs than there are triangle sides with these indices.
C22_SideMatchedOnce ==
  /\ [][(pc = "match" /\ tri < NumTriangles(indices)) =>
          /\ \A j \in 0 .. 2 :
               FindsSibling(tri, j) =>
                 /\ edgeData'[ReverseSideHash(tri, j)] = NullEdge
                 /\ SideHash(tri, j) \in DOMAIN edgeData' => SideHash(tri, j) \in DOMAIN edgeData
          /\ Len(edgesToMerge') - Len(edgesToMerge)
               <= Cardinality({j \in 0 .. 2 : FindsSibling(tri, j)})
          /\ \A p \in DOMAIN edgesToMerge' \ DOMAIN edgesToMerge :
               \E j \in 0 .. 2 :
                 /\ FindsSibling(tri, j)
                 /\ edgesToMerge'[p][2] = Side(tri, j)
                 /\ edgesToMerge'[p][1] = <<edgeData[ReverseSideHash(tri, j)].index0,
                                            edgeData[ReverseSideHash(tri, j)].index1>>]_vars
  /\ [](\A s \in Triangles : \A j \in 0 .. 2 :
          PairOccurrences(Side(s, j)) <= SideOccurrences(Side(s, j)))

\* A sibling was found and consumed without a pair (the angle test failed), and
\* another was found and paired.
C22_Witness ==
  /\ pc = "resolve"
  /\ Len(edgesToMerge) >= 1
  /\ Cardinality(Consumed) > Len(edgesToMerge)

\* C30: weldVertices introduces no vertex index: every value of the returned buffer
\* occurs in the input index buffer, and so lies inside the position buffer.
C30_NoNewIndex ==
  Done =>
    /\ Range(newIndexBuffer) \subseteq Range(indices)
    /\ \A i \in DOMAIN newIndexBuffer :
         newIndexBuffer[i] >= 0 /\ 3 * newIndexBuffer[i] + 3 <= Len(vertices)

\* Two triangles welded: the result uses fewer indices than the input.
C30_Witness ==
  /\ Done
  /\ Len(indices) = 6
  /\ Range(newIndexBuffer) # Range(indices)
  /\ Cardinality(Range(newIndexBuffer)) < Cardinality(Range(indices))

-----------------------------------------------------------------------------
(* CustomOutlinePass.render (src/utils/CustomOutlinePass.ts) *)

\* Largest number of frames the outline pass renders.
MaxFrames == 2

\* debugVisualize: 0 outlines V2, 1 outlines V1, 2 scene, 3 depth, 4 normals,
\* 5 surface-ID debug buffer, 6 outlines only V2.
DebugModes == 0 .. 6

\* What renderScene.overrideMaterial can hold when render is entered: nothing, or
\* a material of the application's.
SceneMaterials == {"null", "applicationMaterial"}

\* isUsingSurfaceIds(): debugVisualize == 0 || debugVisualize == 5 || debugVisualize == 6
isUsingSurfaceIds(debugVisualize) ==
  debugVisualize = 0 \/ debugVisualize = 5 \/ debugVisualize = 6

\* The material render puts on the scene for its first draw.
OverrideMaterialFor(debugVisualize) ==
  IF isUsingSurfaceIds(debugVisualize)
    THEN IF debugVisualize = 5
           THEN "surfaceIdDebugOverrideMaterial"
           ELSE "surfaceIdOverrideMaterial"
    ELSE "normalOverrideMaterial"

\* renderer.render(scene, camera) or fsQuad.render(renderer): one more draw, with
\* the scene's and the write buffer's state at the time.
Draw(p, object) ==
  [p EXCEPT !.drawn = Append(p.drawn, [object |-> object,
                                       target |-> p.target,
                                       overrideMaterial |-> p.overrideMaterial,
                                       depthBuffer |-> p.depthBuffer])]

\* The first half of render: the depth buffer turned off and the scene drawn into
\* the surface buffer under the override material.
RenderSurfaceBuffer(p) ==
  Draw([p EXCEPT !.depthBuffer = FALSE,
                 !.target = "surfaceBuffer",
                 !.overrideMaterial = OverrideMaterialFor(p.debugVisualize),
                 !.drawn = << >>],
       "renderScene")

\* The second half without its assignments: the full-screen quad drawn to the
\* screen or into the write buffer.
RenderOutlines(p) ==
  Draw([p EXCEPT !.target = IF p.renderToScreen THEN "screen" ELSE "writeBuffer"], "fsQuad")

\* A render that leaves the scene under the override material.
renderKeepingOverride(p) ==
  [RenderOutlines(RenderSurfaceBuffer(p)) EXCEPT !.depthBuffer = p.depthBuffer,
                                                 !.frames = p.frames + 1]

\* A render that leaves the write buffer's depth buffer off.
renderKeepingDepthOff(p) ==
  [RenderOutlines([RenderSurfaceBuffer(p) EXCEPT !.overrideMaterial = p.overrideMaterial])
     EXCEPT !.frames = p.frames + 1]

\* render(renderer, writeBuffer, readBuffer)
render(p) ==
  LET depthBufferValue == p.depthBuffer
      overrideMaterialValue == p.overrideMaterial
      surface == RenderSurfaceBuffer(p)
      restored == [surface EXCEPT !.overrideMaterial = overrideMaterialValue]
      outlines == RenderOutlines(restored)
  IN  [outlines EXCEPT !.depthBuffer = depthBufferValue, !.frames = p.frames + 1]

\* A pass added to a composer, before its first frame.
InitPass ==
  /\ vertices = << >>
  /\ indices = << >>
  /\ thresholdAngle = 0
  /\ pc = "idle"
  /\ tri = 0
  /\ edgeNo = 0
  /\ edgeData = EmptyMap
  /\ edgesToMerge = << >>
  /\ edgesToMergeMap = EmptyMap
  /\ mergedMap = EmptyMap
  /\ vertexAliases = EmptyMap
  /\ newIndexBuffer = << >>
  /\ _v0 = ScratchInit.v0
  /\ _normal = ScratchInit.normal
  /\ calls = << >>
  /\ surfaceId = 0
  /\ attributes = << >>
  /\ component = [mounted |-> FALSE]
  /\ resources = << >>
  /\ colors = << >>
  /\ rendered = << >>
  /\ \E d \in DebugModes, screen \in BOOLEAN, m \in SceneMaterials, depth \in BOOLEAN :
       outlinePass = [debugVisualize |-> d,
                      renderToScreen |-> screen,
                      overrideMaterial |-> m,
                      depthBuffer |-> depth,
                      target |-> "screen",
                      drawn |-> << >>,
                      frames |-> 0]

welderVars == <<vertices, indices, thresholdAngle, pc, tri, edgeNo, edgeData,
                edgesToMerge, edgesToMergeMap, mergedMap, vertexAliases, newIndexBuffer,
                _v0, _normal, calls, surfaceId, attributes>>

\* The composer renders the pass.
RenderPass ==
  /\ outlinePass.frames < MaxFrames
  /\ outlinePass' = render(outlinePass)
  /\ UNCHANGED <<welderVars, component, resources, colors, rendered>>

\* uniforms.debugVisualize.value = debugVisualize
SetDebugVisualize ==
  /\ \E d \in DebugModes : outlinePass' = [outlinePass EXCEPT !.debugVisualize = d]
  /\ UNCHANGED <<welderVars, component, resources, colors, rendered>>

\* customOutline.renderToScreen = true / false
SetRenderToScreen ==
  /\ \E b \in BOOLEAN : outlinePass' = [outlinePass EXCEPT !.renderToScreen = b]
  /\ UNCHANGED <<welderVars, component, resources, colors, rendered>>

\* The application sets or clears scene.overrideMaterial between frames.
SetOverrideMaterial ==
  /\ \E m \in SceneMaterials : outlinePass' = [outlinePass EXCEPT !.overrideMaterial = m]
  /\ UNCHANGED <<welderVars, component, resources, colors, rendered>>

NextPass == RenderPass \/ SetDebugVisualize \/ SetRenderToScreen \/ SetOverrideMaterial

SpecPass == InitPass /\ [][NextPass]_vars

\* C25: CustomOutlinePass.render leaves the scene and the write buffer as it found
\* them: when it returns, renderScene.overrideMaterial and writeBuffer.depthBuffer
\* have their values of entry, in every debugVisualize mode and for both values of
\* renderToScreen; in between, the scene was drawn under the mode's override
\* material with the depth buffer off.
C25_RenderRestores ==
  [][outlinePass'.frames # outlinePass.frames =>
       /\ outlinePass'.overrideMaterial = outlinePass.overrideMaterial
       /\ outlinePass'.depthBuffer = outlinePass.depthBuffer
       /\ Len(outlinePass'.drawn) = 2
       /\ outlinePass'.drawn[1].overrideMaterial = OverrideMaterialFor(outlinePass.debugVisualize)
       /\ outlinePass'.drawn[1].depthBuffer = FALSE]_vars

\* A frame in a surface-ID mode, not rendered to the screen, of a scene with a
\* material of the application's and a write buffer with a depth buffer.
C25_Witness ==
  /\ outlinePass.frames > 0
  /\ outlinePass.debugVisualize = 6
  /\ ~outlinePass.renderToScreen
  /\ outlinePass.drawn[1].overrideMaterial = "surfaceIdOverrideMaterial"
  /\ outlinePass.drawn[2].target = "writeBuffer"
  /\ outlinePass.overrideMaterial = "applicationMaterial"
  /\ outlinePass.depthBuffer

-----------------------------------------------------------------------------
(* OutlineEffect (src/components/OutlineEffect.tsx) *)

\* Largest number of composers one OutlineEffect sets up.
MaxSetups == 2

\* The modes the parent switches between: outlines V2, the original scene, the
\* surface-ID debug buffer and outlines only V2.
PropModes == {0, 2, 5, 6}

\* The values useThree() can give for scene, camera and canvas size.
Scenes == {1, 2}

Cameras == {1, 2}

CanvasSizes == {1, 2}

\* The uniform maxSurfaceId of a new surface-ID material.
DefaultMaxSurfaceId == 1

\* A geometry without an index.
NonIndexedMesh ==
  [position |-> Positions(<<(<<0, 0, 0>>), (<<1, 0, 0>>), (<<0, 1, 0>>)>>), index |-> << >>]

\* The meshes scene.traverse visits, in order: scene 1 is a cube; scene 2 is the
\* fold of 90 degrees, a geometry without an index and the split square.
SceneMeshes(scene) ==
  IF scene = 1
    THEN <<Box(0)>>
    ELSE <<[position |-> Positions(<<(<<0, 0, 0>>), (<<1, 0, 0>>), (<<0, 1, 0>>),
                                     (<<0, 0, 0>>), (<<0, 1, 0>>), (<<0, 0, 1>>)>>),
            index |-> <<0, 1, 2, 3, 4, 5>>],
           NonIndexedMesh,
           [position |-> Positions(SubSeq(VertexPoints, 1, 6)), index |-> <<0, 1, 2, 3, 4, 5>>]>>

\* The meshes on which getSurfaceIdAttribute throws: geometry.index is null.
Throws(mesh) == mesh.index = << >> /\ mesh.position # << >>

\* geometry.attributes.color of a mesh that has none, and
\* new THREE.BufferAttribute(surfaceIdAttribute, 4).
NoAttribute == [itemSize |-> 0, array |-> << >>]

BufferAttribute(array, itemSize) == [itemSize |-> itemSize, array |-> array]

Max(a, b) == IF a >= b THEN a ELSE b

\* A traversal in which the first exception ends the visit of the scene.
RECURSIVE TraverseUntilFailure(_, _, _, _)
TraverseUntilFailure(st, meshes, threshold, k) ==
  IF k > Len(meshes) \/ Throws(meshes[k])
    THEN st
    ELSE LET r == getSurfaceIdAttribute(st.surfaceId, meshes[k], threshold)
         IN  TraverseUntilFailure([color |-> [st.color EXCEPT ![k] = BufferAttribute(r.attribute, 4)],
                                   surfaceId |-> r.surfaceId,
                                   maxSurfaceId |-> Max(st.maxSurfaceId, r.surfaceId)],
                                  meshes, threshold, k + 1)

\* scene.traverse with the callback of lines 151-168, from mesh k on: st holds the
\* meshes' 'color' attributes, findSurfaces.surfaceId and the local maxSurfaceId.
RECURSIVE Traverse(_, _, _, _)
Traverse(st, meshes, threshold, k) ==
  IF k > Len(meshes)
    THEN st
    ELSE IF Throws(meshes[k])
           THEN Traverse(st, meshes, threshold, k + 1)
           ELSE LET r == getSurfaceIdAttribute(st.surfaceId, meshes[k], threshold)
                IN  Traverse([color |-> [st.color EXCEPT ![k] = BufferAttribute(r.attribute, 4)],
                              surfaceId |-> r.surfaceId,
                              maxSurfaceId |-> Max(st.maxSurfaceId, r.surfaceId)],
                             meshes, threshold, k + 1)

\* The dependency lists of the three effects, as the last render saw them.
Deps1(c) == <<c.enabled, c.scene, c.camera, c.size>>

Deps2(c) == <<c.enabled, c.scene, c.debugVisualize>>

Deps3(c) == <<c.size>>

\* dispose() of one resource of bundle b: one more call.
Dispose(res, b, resource) == [res EXCEPT ![b][resource] = @ + 1]

\* The cleanup function returned by the first effect (lines 133-137), for the
\* bundle it closed over; w holds component, resources and colors.
Cleanup1(w) ==
  IF w.component.cleanup1 = 0
    THEN w
    ELSE [w EXCEPT !.resources =
            Dispose(Dispose(Dispose(w.resources, w.component.cleanup1, "composer"),
                            w.component.cleanup1, "renderTarget"),
                    w.component.cleanup1, "depthTexture"),
                   !.component.cleanup1 = 0]

\* A first effect that leaves composerRef as it is when the effect is disabled.
Effect1KeepingRef(w) ==
  LET c == w.component
  IN  IF ~c.enabled
        THEN [w EXCEPT !.component.deps1 = Deps1(c),
                       !.resources = IF c.composerRef # 0
                                       THEN Dispose(w.resources, c.composerRef, "composer")
                                       ELSE w.resources]
        ELSE LET b == Len(w.resources) + 1
             IN  [w EXCEPT !.resources =
                     Append(w.resources,
                            [composer |-> 0, renderTarget |-> 0, depthTexture |-> 0,
                             outlinePass |-> 0, maxSurfaceId |-> DefaultMaxSurfaceId]),
                           !.component.composerRef = b,
                           !.component.outlinePassRef = b,
                           !.component.fxaaPassRef = b,
                           !.component.bufferSize = c.size,
                           !.component.cleanup1 = b,
                           !.component.deps1 = Deps1(c)]

\* The body of the first effect (lines 92-132): dispose of the composer when
\* disabled, else a new depth texture, render target, composer and passes.
Effect1(w) ==
  LET c == w.component
  IN  IF ~c.enabled
        THEN [w EXCEPT !.component.deps1 = Deps1(c),
                       !.component.composerRef = 0,
                       !.resources = IF c.composerRef # 0
                                       THEN Dispose(w.resources, c.composerRef, "composer")
                                       ELSE w.resources]
        ELSE LET b == Len(w.resources) + 1
             IN  [w EXCEPT !.resources =
                     Append(w.resources,
                            [composer |-> 0, renderTarget |-> 0, depthTexture |-> 0,
                             outlinePass |-> 0, maxSurfaceId |-> DefaultMaxSurfaceId]),
                           !.component.composerRef = b,
                           !.component.outlinePassRef = b,
                           !.component.fxaaPassRef = b,
                           !.component.bufferSize = c.size,
                           !.component.cleanup1 = b,
                           !.component.deps1 = Deps1(c)]

\* The branch of lines 146-175: the scene's meshes get their attributes, the
\* outline pass its maxSurfaceId, and the flag is set.
ComputeSurfaceIds(w, traversal) ==
  LET c == w.component
  IN  [w EXCEPT !.colors[c.scene] = traversal.color,
                !.resources = IF c.outlinePassRef # 0 /\ traversal.maxSurfaceId > 0
                                THEN [w.resources EXCEPT ![c.outlinePassRef].maxSurfaceId =
                                        traversal.maxSurfaceId + 1]
                                ELSE w.resources,
                !.component.maxSurfaceId = traversal.maxSurfaceId,
                !.component.surfaceIdsComputedRef = TRUE]

\* The branch of lines 176-184: deleteAttribute('color') on every mesh of the scene.
DeleteSurfaceIds(w) ==
  [w EXCEPT !.colors[w.component.scene] = [k \in DOMAIN @ |-> NoAttribute],
            !.component.surfaceIdsComputedRef = FALSE]

\* A second effect that computes the surface IDs whenever it runs in a surface-ID
\* mode.
Effect2Recomputing(w, threshold) ==
  LET c == w.component
      seen == [w EXCEPT !.component.deps2 = Deps2(c)]
  IN  IF ~c.enabled
        THEN seen
        ELSE IF isUsingSurfaceIds(c.debugVisualize)
               THEN ComputeSurfaceIds(seen,
                      Traverse([color |-> w.colors[c.scene], surfaceId |-> 0, maxSurfaceId |-> 0],
                               SceneMeshes(c.scene), threshold, 1))
               ELSE IF c.surfaceIdsComputedRef THEN DeleteSurfaceIds(seen) ELSE seen

\* The body of the second effect (lines 141-184).
Effect2(w, threshold) ==
  LET c == w.component
      seen == [w EXCEPT !.component.deps2 = Deps2(c)]
  IN  IF ~c.enabled
        THEN seen
        ELSE IF isUsingSurfaceIds(c.debugVisualize) /\ ~c.surfaceIdsComputedRef
               THEN ComputeSurfaceIds(seen,
                      Traverse([color |-> w.colors[c.scene], surfaceId |-> 0, maxSurfaceId |-> 0],
                               SceneMeshes(c.scene), threshold, 1))
               ELSE IF ~isUsingSurfaceIds(c.debugVisualize) /\ c.surfaceIdsComputedRef
                      THEN DeleteSurfaceIds(seen)
                      ELSE seen

\* The body of the third effect (lines 229-238): setSize on the current composer
\* and passes (bufferSize is the size their buffers have).
Effect3(w) ==
  LET c == w.component
      seen == [w EXCEPT !.component.deps3 = Deps3(c)]
  IN  IF c.composerRef = 0 \/ c.outlinePassRef = 0 \/ c.fxaaPassRef = 0
        THEN seen
        ELSE [seen EXCEPT !.component.bufferSize = c.size]

\* React runs the passive effects of a commit: first the cleanups of the effects
\* whose dependencies changed, then their bodies, in the order of their hooks.
RunEffects(w, threshold) ==
  LET c == w.component
      run1 == c.deps1 # Deps1(c)
      run2 == c.deps2 # Deps2(c)
      run3 == c.deps3 # Deps3(c)
      w0 == IF run1 THEN Cleanup1(w) ELSE w
      w1 == IF run1 THEN Effect1(w0) ELSE w0
      w2 == IF run2 THEN Effect2(w1, threshold) ELSE w1
      w3 == IF run3 THEN Effect3(w2) ELSE w2
  IN  [w3 EXCEPT !.component.pendingEffects = FALSE]

\* <OutlineEffect/> has been rendered for the first time; its effects have not run.
InitEffect ==
  /\ vertices = << >>
  /\ indices = << >>
  /\ thresholdAngle = 1
  /\ pc = "idle"
  /\ tri = 0
  /\ edgeNo = 0
  /\ edgeData = EmptyMap
  /\ edgesToMerge = << >>
  /\ edgesToMergeMap = EmptyMap
  /\ mergedMap = EmptyMap
  /\ vertexAliases = EmptyMap
  /\ newIndexBuffer = << >>
  /\ _v0 = ScratchInit.v0
  /\ _normal = ScratchInit.normal
  /\ calls = << >>
  /\ surfaceId = 0
  /\ attributes = << >>
  /\ \E enabled \in BOOLEAN, debugVisualize \in PropModes, scene \in Scenes :
       component = [mounted |-> TRUE,
                    enabled |-> enabled,
                    debugVisualize |-> debugVisualize,
                    scene |-> scene,
                    camera |-> 1,
                    size |-> 1,
                    pendingEffects |-> TRUE,
                    deps1 |-> << >>,
                    deps2 |-> << >>,
                    deps3 |-> << >>,
                    cleanup1 |-> 0,
                    composerRef |-> 0,
                    outlinePassRef |-> 0,
                    fxaaPassRef |-> 0,
                    bufferSize |-> 0,
                    surfaceIdsComputedRef |-> FALSE,
                    maxSurfaceId |-> 0]
  /\ resources = << >>
  /\ colors = [s \in Scenes |-> [k \in DOMAIN SceneMeshes(s) |-> NoAttribute]]
  /\ rendered = [composer |-> 0, disposals |-> 0, enabled |-> FALSE]
  /\ outlinePass = << >>

\* A new render is committed once the effects of the last one have run.
Committed == component.mounted /\ ~component.pendingEffects

\* The first effect of the next commit will set up one more composer.
CanSetUp == Len(resources) < MaxSetups

\* The parent renders <OutlineEffect enabled={...}/> with the other value.
ToggleEnabled ==
  /\ Committed
  /\ ~component.enabled => CanSetUp
  /\ component' = [component EXCEPT !.enabled = ~@, !.pendingEffects = TRUE]
  /\ UNCHANGED <<welderVars, resources, colors, rendered, outlinePass>>

\* The parent renders <OutlineEffect debugVisualize={...}/> with another mode.
ChangeDebugVisualize ==
  /\ Committed
  /\ \E d \in PropModes \ {component.debugVisualize} :
       component' = [component EXCEPT !.debugVisualize = d, !.pendingEffects = TRUE]
  /\ UNCHANGED <<welderVars, resources, colors, rendered, outlinePass>>

\* The canvas is resized.
Resize ==
  /\ Committed
  /\ component.enabled => CanSetUp
  /\ \E s \in CanvasSizes \ {component.size} :
       component' = [component EXCEPT !.size = s, !.pendingEffects = TRUE]
  /\ UNCHANGED <<welderVars, resources, colors, rendered, outlinePass>>

\* useThree() gives another scene.
ChangeScene ==
  /\ Committed
  /\ component.enabled => CanSetUp
  /\ \E s \in Scenes \ {component.scene} :
       component' = [component EXCEPT !.scene = s, !.pendingEffects = TRUE]
  /\ UNCHANGED <<welderVars, resources, colors, rendered, outlinePass>>

\* useThree() gives another camera.
ChangeCamera ==
  /\ Committed
  /\ component.enabled => CanSetUp
  /\ \E s \in Cameras \ {component.camera} :
       component' = [component EXCEPT !.camera = s, !.pendingEffects = TRUE]
  /\ UNCHANGED <<welderVars, resources, colors, rendered, outlinePass>>

\* React flushes the passive effects of the last commit.
FlushEffects ==
  /\ component.mounted
  /\ component.pendingEffects
  /\ LET w == RunEffects([component |-> component, resources |-> resources, colors |-> colors],
                         thresholdAngle)
     IN  /\ component' = w.component
         /\ resources' = w.resources
         /\ colors' = w.colors
  /\ UNCHANGED <<welderVars, rendered, outlinePass>>

\* The callback given to useFrame (lines 188-226), with the props of the last
\* commit: the composer it renders, if any, and how often that composer had been
\* disposed of by then.
Frame ==
  /\ component.mounted
  /\ IF ~component.enabled \/ component.outlinePassRef = 0 \/ component.composerRef = 0
       THEN rendered' = [composer |-> 0, disposals |-> 0, enabled |-> component.enabled]
       ELSE rendered' = [composer |-> component.composerRef,
                         disposals |-> resources[component.composerRef].composer,
                         enabled |-> component.enabled]
  /\ UNCHANGED <<welderVars, component, resources, colors, outlinePass>>

\* The component unmounts: the cleanup of the first effect runs and the frame
\* callback is unsubscribed.
Unmount ==
  /\ Committed
  /\ LET w == Cleanup1([component |-> component, resources |-> resources, colors |-> colors])
     IN  /\ component' = [w.component EXCEPT !.mounted = FALSE]
         /\ resources' = w.resources
  /\ UNCHANGED <<welderVars, colors, rendered, outlinePass>>

NextEffect ==
  \/ ToggleEnabled
  \/ ChangeDebugVisualize
  \/ Resize
  \/ ChangeScene
  \/ ChangeCamera
  \/ FlushEffects
  \/ Frame
  \/ Unmount

SpecEffect == InitEffect /\ [][NextEffect]_vars

-----------------------------------------------------------------------------
(* Claims about OutlineEffect *)

\* The effects of the last commit have run and the effect is enabled in a
\* surface-ID mode.
SurfaceIdModeInEffect ==
  /\ component.mounted
  /\ ~component.pendingEffects
  /\ component.enabled
  /\ isUsingSurfaceIds(component.debugVisualize)

\* The step is a flush of the passive effects.
EffectsRun == component.mounted /\ component.pendingEffects /\ ~component'.pendingEffects

\* The second effect is among the effects the flush runs.
Effect2Runs == EffectsRun /\ component.deps2 # Deps2(component)

\* The meshes of the component's scene, and those getSurfaceIdAttribute accepts.
MeshesInScene == DOMAIN SceneMeshes(component.scene)

Segmentable == {k \in MeshesInScene : ~Throws(SceneMeshes(component.scene)[k])}

\* C23 (as claimed): whenever the effect is enabled in a surface-ID mode and the
\* surface IDs have been computed with a maximum counter value m > 0, the uniform
\* maxSurfaceId of the outline pass of the current composer is m + 1.
C23_MaxSurfaceIdUniform ==
  (/\ SurfaceIdModeInEffect
   /\ component.surfaceIdsComputedRef
   /\ component.maxSurfaceId > 0)
    => /\ component.composerRef # 0
       /\ resources[component.composerRef].maxSurfaceId = component.maxSurfaceId + 1

\* C24: the life cycle of the surface-ID attributes while the effect is enabled:
\* the second effect computes them when it runs in a surface-ID mode with the flag
\* clear, and sets the flag; with the flag set it leaves them alone in a surface-ID
\* mode, and in any other mode it deletes 'color' from every mesh of the scene and
\* clears the flag; a flush in which it does not run changes neither.
C24_SurfaceIdLifecycle ==
  [][EffectsRun =>
       IF Effect2Runs /\ component.enabled
         THEN IF isUsingSurfaceIds(component.debugVisualize)
                THEN /\ component'.surfaceIdsComputedRef
                     /\ IF component.surfaceIdsComputedRef
                          THEN colors' = colors
                          ELSE /\ \A k \in Segmentable :
                                    colors'[component.scene][k].itemSize = 4
                               /\ \A s \in Scenes \ {component.scene} : colors'[s] = colors[s]
                ELSE /\ ~component'.surfaceIdsComputedRef
                     /\ IF component.surfaceIdsComputedRef
                          THEN /\ \A k \in MeshesInScene :
                                    colors'[component.scene][k] = NoAttribute
                               /\ \A s \in Scenes \ {component.scene} : colors'[s] = colors[s]
                          ELSE colors' = colors
         ELSE /\ colors' = colors
              /\ component'.surfaceIdsComputedRef = component.surfaceIdsComputedRef]_vars

\* The attributes have been computed in a surface-ID mode and deleted again by
\* the change to another mode: the flag is clear and no mesh of the scene carries
\* 'color'.
C24_Witness ==
  /\ component.mounted
  /\ ~component.pendingEffects
  /\ component.enabled
  /\ ~isUsingSurfaceIds(component.debugVisualize)
  /\ ~component.surfaceIdsComputedRef
  /\ component.maxSurfaceId > 0
  /\ \A k \in MeshesInScene : colors[component.scene][k] = NoAttribute

\* C26 (as claimed): whenever the effect is enabled in a surface-ID mode and its
\* effects have run, every mesh of the current scene (that the segmenter accepts)
\* carries the 4-component 'color' attribute.
C26_EveryMeshHasColor ==
  SurfaceIdModeInEffect =>
    \A k \in Segmentable : colors[component.scene][k].itemSize = 4

\* C27: the frame callback renders the composer only when enabled is true and the
\* composer in composerRef exists and has not been disposed of: no frame has
\* rendered a disposed composer, and while the effect is enabled composerRef never
\* holds one.
C27_NeverRendersDisposed ==
  /\ rendered.composer # 0 => rendered.enabled /\ rendered.disposals = 0
  /\ (/\ component.mounted
      /\ component.enabled
      /\ component.composerRef # 0
      /\ component.outlinePassRef # 0)
       => resources[component.composerRef].composer = 0

\* A frame has rendered the second composer, set up after the first was disposed
\* of by disabling the effect.
C27_Witness ==
  /\ rendered.composer = 2
  /\ resources[1].composer = 2
  /\ component.enabled

\* C28 (as claimed): every resource of a composer's setup (the composer, its render
\* target, the depth texture, the outline pass) has had dispose() called exactly
\* once by the time the composer is replaced, the effect disabled or the component
\* unmounted.
C28_DisposedExactlyOnce ==
  \A b \in DOMAIN resources :
    (\/ ~component.mounted
     \/ ~component.pendingEffects /\ component.cleanup1 # b)
      => /\ resources[b].composer = 1
         /\ resources[b].renderTarget = 1
         /\ resources[b].depthTexture = 1
         /\ resources[b].outlinePass = 1

\* C29: a failure of getSurfaceIdAttribute on one mesh is contained: in the flush
\* that computes the surface IDs the failing mesh's 'color' stays as it was, every
\* other mesh of the scene gets its attribute of four components per vertex, and
\* the flag is set.
C29_FailureContained ==
  [][(/\ Effect2Runs
      /\ component.enabled
      /\ isUsingSurfaceIds(component.debugVisualize)
      /\ ~component.surfaceIdsComputedRef)
       => /\ \A k \in MeshesInScene \ Segmentable :
               colors'[component.scene][k] = colors[component.scene][k]
          /\ \A k \in Segmentable :
               /\ colors'[component.scene][k].itemSize = 4
               /\ Len(colors'[component.scene][k].array)
                    = 4 * NumVertices(SceneMeshes(component.scene)[k])
          /\ component'.surfaceIdsComputedRef]_vars

\* The scene with the geometry that has no index has been traversed: the meshes
\* before and after it carry their attributes, it carries none.
C29_Witness ==
  /\ SurfaceIdModeInEffect
  /\ component.scene = 2
  /\ component.surfaceIdsComputedRef
  /\ Throws(SceneMeshes(2)[2])
  /\ colors[2][1].itemSize = 4
  /\ colors[2][2] = NoAttribute
  /\ colors[2][3].itemSize = 4
  /\ component.maxSurfaceId > 0

====
